---- MODULE Spec2Model ----
(***************************************************************************)
(* Access control of the admin panel: the client authorization facade      *)
(* (useAuth), the route guard (middleware) and the guarded API handlers.   *)
(***************************************************************************)
EXTENDS Integers, Sequences, FiniteSets, TLC

VARIABLES
    cSession,   \* useAuth: data of authClient.useSession()
    cPending,   \* useAuth: isPending of authClient.useSession()
    lastCall,   \* the last evaluation of useAuth().hasPermission
    prevCall,   \* the evaluation before it
    auth,       \* what useAuth() returned at the last render
    mounted,    \* UI: the components on the page, with their props
    screen,     \* UI: what each of them rendered
    rq,         \* route guard: the request being routed
    served,     \* route guard: middleware invocations completed so far
    reqs,       \* API: the requests being handled
    agenda,     \* API: prisma.agenda, id -> data
    users,      \* API: prisma.user, the ids stored
    selectedProject,    \* project store: the project being edited, or null
    isFormDialogOpen,   \* ProjectsPage: the form dialog is open
    form,               \* ProjectForm: its state and form values while mounted
    subs,               \* ProjectForm: the runs of onSubmit that are pending
    toast,              \* ProjectForm: the last toast of onSubmit
    submits,            \* ProjectForm: the runs of onSubmit started so far
    projects,           \* project store: the list of projects
    loading,            \* project store: a fetch is running
    error,              \* project store: the error message, or null
    isDeleteDialogOpen, \* ProjectsPage: the delete dialog is open
    projectToDelete,    \* ProjectsPage: the project the delete dialog is about
    deletions,          \* ProjectsPage: the deleteProject calls and their toasts
    sinceOpen           \* deleteProject calls since the delete dialog was opened

vars ==
    <<cSession, cPending, lastCall, prevCall, auth, mounted, screen, rq, served, reqs, agenda, users,
      selectedProject, isFormDialogOpen, form, subs, toast, submits,
      projects, loading, error, isDeleteDialogOpen, projectToDelete, deletions, sinceOpen>>

facadeVars == <<cSession, cPending, lastCall, prevCall, auth>>
uiVars == <<mounted, screen>>
routeVars == <<rq, served>>
apiVars == <<reqs, agenda, users>>
formVars == <<selectedProject, isFormDialogOpen, form, subs, toast, submits>>
pageVars ==
    <<projects, loading, error, isDeleteDialogOpen, projectToDelete, deletions, sinceOpen>>

----------------------------------------------------------------------------
(* Values *)

\* JavaScript's undefined, for a field that is absent
Undefined == "<undefined>"

\* the UserRole enum of the Prisma model
UserRole == {"ADMIN", "MANAGER", "USER"}

\* what a user object's role field can hold on the client, where it is read
\* through a cast: an enum value, nothing, the empty string, any other string
ClientRoleValues == UserRole \cup {Undefined, "", "GUEST"}

NullSession == [tag |-> "null"]
NoUser == [tag |-> "undefined"]
UserWith(r) == [tag |-> "user", role |-> r]
SessionOf(u) == [tag |-> "session", user |-> u]

\* sessions the client hook can observe
ClientSessions ==
    {NullSession, SessionOf(NoUser)} \cup {SessionOf(UserWith(r)) : r \in ClientRoleValues}

\* the six permission strings of the vocabulary
Vocabulary ==
    {"agenda:read", "agenda:create", "agenda:update", "agenda:delete",
     "profile:read_own", "profile:update_own"}

\* strings outside the vocabulary that a caller may pass
OtherStrings == {"", "users:delete", "agenda:publish"}

PermissionStrings == Vocabulary \cup OtherStrings

\* Array.prototype.includes
Includes(arr, x) == \E i \in DOMAIN arr : arr[i] = x

\* JavaScript truthiness of a role value
Truthy(v) == v # Undefined /\ v # ""

----------------------------------------------------------------------------
(* Client authorization facade: src/hooks/useAuth.ts *)

\* const user = session?.user
user(session) == IF session.tag = "session" THEN session.user ELSE NoUser

userRole_noDefault(session) ==
    LET u == user(session)
    IN  IF u.tag = "user" THEN u.role ELSE Undefined

\* const userRole = (user?.role as UserRole) || "USER"
userRole(session) ==
    LET u == user(session)
        r == IF u.tag = "user" THEN u.role ELSE Undefined
    IN  IF Truthy(r) THEN r ELSE "USER"

isAuthenticated_always(session) == TRUE

isAuthenticated(session) == session # NullSession

isAdmin_orManager(session) ==
    userRole(session) = "ADMIN" \/ userRole(session) = "MANAGER"

isAdmin(session) == userRole(session) = "ADMIN"

isEditor_orAdmin(session) ==
    userRole(session) = "MANAGER" \/ userRole(session) = "ADMIN"

isEditor(session) == userRole(session) = "MANAGER"

canManageContent_adminOnly(session) == userRole(session) = "ADMIN"

canManageContent(session) ==
    userRole(session) = "ADMIN" \/ userRole(session) = "MANAGER"

editorPermissions_noProfileRead ==
    <<"agenda:read", "agenda:create", "agenda:update", "agenda:delete",
      "profile:update_own">>

editorPermissions ==
    <<"agenda:read", "agenda:create", "agenda:update", "agenda:delete",
      "profile:read_own", "profile:update_own">>

userPermissions_withCreate ==
    <<"agenda:read", "agenda:create", "profile:read_own", "profile:update_own">>

userPermissions ==
    <<"agenda:read", "profile:read_own", "profile:update_own">>

hasPermission_adminByList(role, permission) ==
    IF role = "ADMIN" \/ role = "MANAGER"
    THEN Includes(editorPermissions, permission)
    ELSE Includes(userPermissions, permission)

hasPermission(role, permission) ==
    IF role = "ADMIN" THEN TRUE
    ELSE IF role = "MANAGER" THEN Includes(editorPermissions, permission)
    ELSE Includes(userPermissions, permission)

NoCall == [tag |-> "none"]

isLoading_never(pending) == FALSE

\* isLoading: isPending
isLoading(pending) == pending

\* the object useAuth() returns
useAuth(session, pending) ==
    [user |-> user(session),
     isLoading |-> isLoading(pending),
     isAuthenticated |-> isAuthenticated(session),
     role |-> userRole(session),
     isAdmin |-> isAdmin(session),
     isEditor |-> isEditor(session),
     canManageContent |-> canManageContent(session)]

----------------------------------------------------------------------------
(* UI guards: src/components/auth/ProtectedRoute.tsx, PermissionGate.tsx,  *)
(* and the components of the documentation that read useAuth()             *)

View(kind) == [view |-> kind]

\* what a guard shows in place of its children
Instead(props, otherwise) ==
    IF props.fallback THEN View("fallback") ELSE View(otherwise)

\* ProtectedRoute: loading, then authentication, then requireAdmin
ProtectedRoute(a, props) ==
    IF a.isLoading THEN View("loading")
    ELSE IF ~a.isAuthenticated THEN Instead(props, "redirect")
    ELSE IF props.requireAdmin /\ ~a.isAdmin THEN Instead(props, "unauthorized")
    ELSE View("children")

\* PermissionGate: the decision table of ProtectedRoute, showing its children
\* or hiding them, with a fallback and without a redirect
PermissionGate(a, props) ==
    IF a.isLoading THEN View("loading")
    ELSE IF ~a.isAuthenticated THEN Instead(props, "nothing")
    ELSE IF props.requireAdmin /\ ~a.isAdmin THEN Instead(props, "nothing")
    ELSE View("children")

\* AgendaCard: Editar under hasPermission("agenda:update"), Excluir under
\* isAdmin
AgendaCard(a) ==
    [view |-> "card",
     edit |-> hasPermission(a.role, "agenda:update"),
     delete |-> a.isAdmin]

\* MyComponent: the login prompt, or the buttons that the flags allow
MyComponent(a) ==
    IF ~a.isAuthenticated THEN View("login")
    ELSE [view |-> "home",
          admin |-> a.isAdmin,
          create |-> a.canManageContent,
          delete |-> hasPermission(a.role, "agenda:delete")]

Guards == {"ProtectedRoute", "PermissionGate"}

\* requireAdmin defaults to false, the fallback is optional
Components ==
    [comp : Guards, requireAdmin : BOOLEAN, fallback : BOOLEAN]
    \cup [comp : {"AgendaCard", "MyComponent"}, requireAdmin : {FALSE},
          fallback : {FALSE}]

Render(c, a) ==
    CASE c.comp = "ProtectedRoute" -> ProtectedRoute(a, c)
      [] c.comp = "PermissionGate" -> PermissionGate(a, c)
      [] c.comp = "AgendaCard" -> AgendaCard(a)
      [] c.comp = "MyComponent" -> MyComponent(a)

\* every mounted component renders from the same value of the hook
RenderAll(ms, a) == [i \in DOMAIN ms |-> Render(ms[i], a)]

\* bound of the UI model
MaxMounted == 2

\* a component is put on the page and renders
Mount(c) ==
    /\ Len(mounted) < MaxMounted
    /\ mounted' = Append(mounted, c)
    /\ screen' = RenderAll(mounted', auth)
    /\ UNCHANGED <<facadeVars, routeVars, apiVars, formVars, pageVars>>

\* the last component leaves the page
Unmount ==
    /\ Len(mounted) > 0
    /\ mounted' = SubSeq(mounted, 1, Len(mounted) - 1)
    /\ screen' = RenderAll(mounted', auth)
    /\ UNCHANGED <<facadeVars, routeVars, apiVars, formVars, pageVars>>

----------------------------------------------------------------------------
(* Client authorization facade, continued: the session changes *)

\* the session provider delivers the session it resolved; the hook runs
\* again and the components that use it render again
SessionLoaded(s) ==
    /\ cPending
    /\ cPending' = FALSE
    /\ cSession' = s
    /\ auth' = useAuth(cSession', cPending')
    /\ screen' = RenderAll(mounted, auth')
    /\ UNCHANGED <<lastCall, prevCall, mounted, routeVars, apiVars, formVars, pageVars>>

\* signIn: authClient.signIn.email, ending in a session for the user, whether
\* or not there was a session before
SignIn(s) ==
    /\ ~cPending
    /\ s # NullSession
    /\ cSession' = s
    /\ cPending' = cPending
    /\ auth' = useAuth(cSession', cPending')
    /\ screen' = RenderAll(mounted, auth')
    /\ UNCHANGED <<lastCall, prevCall, mounted, routeVars, apiVars, formVars, pageVars>>

\* signOut: authClient.signOut, which leaves no session, whether or not there
\* was one
SignOut ==
    /\ ~cPending
    /\ cSession' = NullSession
    /\ cPending' = cPending
    /\ auth' = useAuth(cSession', cPending')
    /\ screen' = RenderAll(mounted, auth')
    /\ UNCHANGED <<lastCall, prevCall, mounted, routeVars, apiVars, formVars, pageVars>>

\* refetchSession: refetch of useSession
RefetchSession ==
    /\ ~cPending
    /\ cPending' = TRUE
    /\ cSession' = cSession
    /\ auth' = useAuth(cSession', cPending')
    /\ screen' = RenderAll(mounted, auth')
    /\ UNCHANGED <<lastCall, prevCall, mounted, routeVars, apiVars, formVars, pageVars>>

\* a component calls useAuth().hasPermission(permission)
CallHasPermission(permission) ==
    /\ lastCall' = [tag |-> "call",
                    session |-> cSession,
                    role |-> userRole(cSession),
                    permission |-> permission,
                    result |-> hasPermission(userRole(cSession), permission)]
    /\ prevCall' = lastCall
    /\ UNCHANGED <<cSession, cPending, auth, uiVars, routeVars, apiVars, formVars, pageVars>>

NextFacade ==
    \/ \E s \in ClientSessions : SessionLoaded(s)
    \/ \E s \in ClientSessions : SignIn(s)
    \/ SignOut
    \/ RefetchSession
    \/ \E p \in PermissionStrings : CallHasPermission(p)

NextUi ==
    \/ \E s \in ClientSessions : SessionLoaded(s)
    \/ \E s \in ClientSessions : SignIn(s)
    \/ SignOut
    \/ RefetchSession
    \/ \E c \in Components : Mount(c)
    \/ Unmount

InitFacadeVars ==
    /\ cSession = NullSession
    /\ cPending = TRUE
    /\ lastCall = NoCall
    /\ prevCall = NoCall
    /\ auth = useAuth(NullSession, TRUE)

InitUiVars ==
    /\ mounted = <<>>
    /\ screen = <<>>

----------------------------------------------------------------------------
(* Route guard: src/middleware.ts *)

\* a pathname is the sequence of its characters
PathAdmin == <<"/", "a", "d", "m", "i", "n">>
PathAdminSlash == <<"/", "a", "d", "m", "i", "n", "/">>
PathAdminUsers == <<"/", "a", "d", "m", "i", "n", "/", "u", "s", "e", "r", "s">>
PathAdminProjects == <<"/", "a", "d", "m", "i", "n", "/", "p", "r", "o", "j", "e", "c", "t", "s">>
PathAdminx == <<"/", "a", "d", "m", "i", "n", "x">>
PathLogin == <<"/", "l", "o", "g", "i", "n">>
PathHome == <<"/">>
PathDashboard == <<"/", "d", "a", "s", "h", "b", "o", "a", "r", "d">>

Paths ==
    {PathAdmin, PathAdminUsers, PathAdminProjects, PathAdminx, PathLogin, PathHome,
     PathDashboard}

\* String.prototype.startsWith
StartsWith(s, prefix) ==
    /\ Len(s) >= Len(prefix)
    /\ SubSeq(s, 1, Len(prefix)) = prefix

MatcherMatches_everyPath(path) ==
    StartsWith(path, PathHome)

\* config.matcher "/admin/:path*": /admin followed by zero or more segments
MatcherMatches(path) ==
    \/ path = PathAdmin
    \/ StartsWith(path, PathAdminSlash)

\* auth.api.getSession throws
ResolutionError == [tag |-> "error"]

\* what auth.api.getSession yields on the server: customSession always sets
\* an enum role; a session without a user is what `session?.user` allows for
ServerSessions ==
    {NullSession, SessionOf(NoUser)} \cup {SessionOf(UserWith(r)) : r \in UserRole}

ServerResolutions == ServerSessions \cup {ResolutionError}

Redirect(pathname) == [kind |-> "redirect", pathname |-> pathname]
NextResponse == [kind |-> "next"]
Throws == [kind |-> "throw"]

\* session?.user is truthy
HasUser(session) == session.tag = "session" /\ session.user.tag = "user"

middleware_adminOnly(path, resolution) ==
    IF resolution = ResolutionError THEN Throws
    ELSE IF ~HasUser(resolution) THEN Redirect(PathLogin)
    ELSE IF StartsWith(path, PathAdmin) /\ resolution.user.role # "ADMIN"
         THEN Redirect(PathHome)
    ELSE NextResponse

middleware_loginForAll(path, resolution) ==
    IF resolution = ResolutionError THEN Throws
    ELSE IF ~HasUser(resolution) THEN Redirect(PathLogin)
    ELSE IF StartsWith(path, PathAdmin)
            /\ resolution.user.role # "ADMIN" /\ resolution.user.role # "MANAGER"
         THEN Redirect(PathLogin)
    ELSE NextResponse

middleware_nullOnly(path, resolution) ==
    IF resolution = ResolutionError THEN Throws
    ELSE IF resolution = NullSession THEN Redirect(PathLogin)
    ELSE IF StartsWith(path, PathAdmin)
            /\ HasUser(resolution)
            /\ resolution.user.role # "ADMIN" /\ resolution.user.role # "MANAGER"
         THEN Redirect(PathHome)
    ELSE NextResponse

\* middleware(req): the await of getSession is not inside a try, so a throw
\* of getSession leaves the middleware as an exception
middleware(path, resolution) ==
    IF resolution = ResolutionError THEN Throws
    ELSE IF ~HasUser(resolution) THEN Redirect(PathLogin)
    ELSE IF StartsWith(path, PathAdmin)
            /\ resolution.user.role # "ADMIN" /\ resolution.user.role # "MANAGER"
         THEN Redirect(PathHome)
    ELSE NextResponse

Rendered == [kind |-> "render"]

Dashboard_noRedirect(resolution) ==
    IF resolution = ResolutionError THEN Throws
    ELSE IF resolution = NullSession THEN Rendered
    ELSE IF ~HasUser(resolution) THEN Throws
    ELSE Rendered

\* the server-rendered Dashboard page (app/dashboard/page.tsx): getSession is
\* awaited outside any try; `session?.user.name` reads name of session.user
Dashboard(resolution) ==
    IF resolution = ResolutionError THEN Throws
    ELSE IF resolution = NullSession THEN Redirect(PathHome)
    ELSE IF ~HasUser(resolution) THEN Throws
    ELSE Rendered

\* bounds of the route guard's model
MaxServed == 2
MaxRedirects == 2

Idle == [st |-> "idle"]

\* a request with its credentials arrives
Arrive(path, resolution) ==
    /\ rq = Idle
    /\ Cardinality(served) < MaxServed
    /\ rq' = [st |-> "incoming", asked |-> path, path |-> path,
              session |-> resolution, redirects |-> 0]
    /\ UNCHANGED <<served, facadeVars, uiVars, apiVars, formVars, pageVars>>

\* the matcher selects the request and the middleware decides
RunMiddleware ==
    /\ rq.st = "incoming"
    /\ MatcherMatches(rq.path)
    /\ rq.redirects < MaxRedirects
    /\ LET outcome == middleware(rq.path, rq.session)
       IN  /\ served' = served \cup
                 {[by |-> "middleware", path |-> rq.path, session |-> rq.session,
                   outcome |-> outcome]}
           /\ rq' = IF outcome.kind = "redirect"
                      THEN [rq EXCEPT !.path = outcome.pathname,
                                      !.redirects = rq.redirects + 1]
                    ELSE IF outcome.kind = "next"
                      THEN [rq EXCEPT !.st = "page"]
                    ELSE [rq EXCEPT !.st = "error"]
    /\ UNCHANGED <<facadeVars, uiVars, apiVars, formVars, pageVars>>

\* a path outside the matcher goes to its page without the middleware
PassThrough ==
    /\ rq.st = "incoming"
    /\ ~MatcherMatches(rq.path)
    /\ rq' = [rq EXCEPT !.st = "page"]
    /\ UNCHANGED <<served, facadeVars, uiVars, apiVars, formVars, pageVars>>

\* the page of the path renders on the server
RenderPage ==
    /\ rq.st = "page"
    /\ IF rq.path = PathDashboard
       THEN LET outcome == Dashboard(rq.session)
            IN  /\ served' = served \cup
                      {[by |-> "Dashboard", path |-> rq.path, session |-> rq.session,
                        outcome |-> outcome]}
                /\ rq' = IF outcome.kind = "redirect"
                           THEN [rq EXCEPT !.st = "incoming",
                                           !.path = outcome.pathname,
                                           !.redirects = rq.redirects + 1]
                         ELSE IF outcome.kind = "render"
                           THEN [rq EXCEPT !.st = "rendered"]
                         ELSE [rq EXCEPT !.st = "error"]
       ELSE /\ rq' = [rq EXCEPT !.st = "rendered"]
            /\ UNCHANGED served
    /\ UNCHANGED <<facadeVars, uiVars, apiVars, formVars, pageVars>>

\* the response is sent
Respond ==
    /\ rq.st \in {"rendered", "error"}
    /\ rq' = Idle
    /\ UNCHANGED <<served, facadeVars, uiVars, apiVars, formVars, pageVars>>

NextRoute ==
    \/ \E p \in Paths, s \in ServerResolutions : Arrive(p, s)
    \/ RunMiddleware
    \/ PassThrough
    \/ RenderPage
    \/ Respond

InitRouteVars ==
    /\ rq = Idle
    /\ served = {}

----------------------------------------------------------------------------
(* Server guards: src/lib/auth-server-utils.ts, and the handlers that call *)
(* them: src/app/api/users/route.ts, src/app/api/agenda/[id]/route.ts      *)

\* what a guard does: it returns the user or throws Unauthorized
Returns(u) == [ok |-> TRUE, user |-> u]
Unauthorized == [ok |-> FALSE, error |-> "Unauthorized"]

\* requireAuth(): any resolved session
requireAuth(resolution) ==
    IF resolution # ResolutionError /\ HasUser(resolution)
    THEN Returns(resolution.user)
    ELSE Unauthorized

\* requireManagerOrAdmin(): role MANAGER or ADMIN
requireManagerOrAdmin(resolution) ==
    IF /\ resolution # ResolutionError
       /\ HasUser(resolution)
       /\ resolution.user.role \in {"MANAGER", "ADMIN"}
    THEN Returns(resolution.user)
    ELSE Unauthorized

\* requireAdmin(): role ADMIN
requireAdmin(resolution) ==
    IF /\ resolution # ResolutionError
       /\ HasUser(resolution)
       /\ resolution.user.role = "ADMIN"
    THEN Returns(resolution.user)
    ELSE Unauthorized

CallGuard(g, resolution) ==
    CASE g = "requireAuth" -> requireAuth(resolution)
      [] g = "requireManagerOrAdmin" -> requireManagerOrAdmin(resolution)
      [] g = "requireAdmin" -> requireAdmin(resolution)

\* the call of a name the handler's module does not import throws
ReferenceError == [ok |-> FALSE, error |-> "ReferenceError"]

Handlers ==
    {"UsersGET", "AgendaPOST", "ProfileGET", "AgendaPUT", "AgendaDELETE", "deleteUser"}

\* the route handlers answer with a Response; deleteUser is a server action
\* whose exceptions reach its caller
IsRoute(h) == h # "deleteUser"

GuardOf_deleteByManager(h) ==
    CASE h = "UsersGET" -> "requireAdmin"
      [] h = "AgendaPOST" -> "requireManagerOrAdmin"
      [] h = "ProfileGET" -> "requireAuth"
      [] h = "AgendaPUT" -> "requireManagerOrAdmin"
      [] h = "AgendaDELETE" -> "requireAdmin"
      [] h = "deleteUser" -> "requireManagerOrAdmin"

\* the guard each handler awaits
GuardOf(h) ==
    CASE h = "UsersGET" -> "requireAdmin"
      [] h = "AgendaPOST" -> "requireManagerOrAdmin"
      [] h = "ProfileGET" -> "requireAuth"
      [] h = "AgendaPUT" -> "requireManagerOrAdmin"
      [] h = "AgendaDELETE" -> "requireAdmin"
      [] h = "deleteUser" -> "requireAdmin"

\* the guards each handler's module imports: api/users/route.ts imports the
\* three, api/agenda/[id]/route.ts imports requireManagerOrAdmin (and
\* getAuthUser) but not the requireAdmin its DELETE calls; the deleteUser
\* action is printed without its module header, whose names are taken as bound
Imports(h) ==
    CASE h \in {"UsersGET", "AgendaPOST", "ProfileGET", "deleteUser"} ->
             {"requireAdmin", "requireAuth", "requireManagerOrAdmin"}
      [] h \in {"AgendaPUT", "AgendaDELETE"} -> {"requireManagerOrAdmin"}

Bound(h) == GuardOf(h) \in Imports(h)

\* await requireX() in handler h
GuardCall(h, resolution) ==
    IF Bound(h) THEN CallGuard(GuardOf(h), resolution) ELSE ReferenceError

Program_unguardedDelete(h) ==
    CASE h \in {"UsersGET", "AgendaPOST", "ProfileGET"} -> <<"guard", "logic">>
      [] h = "AgendaPUT" -> <<"guard", "body", "persist">>
      [] h = "AgendaDELETE" -> <<"guard", "persist">>
      [] h = "deleteUser" -> <<"persist">>

\* the awaited statements of each handler, in the order of its body
Program(h) ==
    CASE h \in {"UsersGET", "AgendaPOST", "ProfileGET"} -> <<"guard", "logic">>
      [] h = "AgendaPUT" -> <<"guard", "body", "persist">>
      [] h = "AgendaDELETE" -> <<"guard", "persist">>
      [] h = "deleteUser" -> <<"guard", "persist">>

\* bounds of the API model
MaxReq == 2
MaxAgendaId == 1
MaxUserId == 1

ReqIds == 1 .. MaxReq
AgendaIds == 1 .. MaxAgendaId
UserIds == 1 .. MaxUserId

\* request bodies: JSON documents, and a body that is not JSON
Data == {"a", "b"}
InvalidJson == "<invalid json>"
Bodies == Data \cup {InvalidJson}

\* a row that is not in the table
Absent == "<absent>"

Json(status, body) == [kind |-> "response", status |-> status, body |-> body]
Returned(value) == [kind |-> "return", value |-> value]
Thrown(err) == [kind |-> "throw", error |-> err]
NoOutcome == [kind |-> "none"]

IdleReq == [h |-> "none", at |-> 0, guard |-> "none", session |-> NullSession, admitted |-> "pending",
            body |-> Undefined, wrote |-> FALSE, out |-> NoOutcome]

Running(r) == reqs[r].h # "none" /\ reqs[r].out = NoOutcome
Step(r) == Program(reqs[r].h)[reqs[r].at]

\* an exception inside the try of a route handler: the catch answers 401;
\* deleteUser has no try, so the exception leaves it
Fail(h, err) ==
    IF IsRoute(h) THEN Json(401, "Unauthorized") ELSE Thrown(err)

\* the handler is invoked; every invocation is a request of its own
Receive(r, h) ==
    /\ reqs[r] = IdleReq
    /\ reqs' = [reqs EXCEPT ![r] = [IdleReq EXCEPT !.h = h, !.at = 1]]
    /\ UNCHANGED <<agenda, users, facadeVars, uiVars, routeVars, formVars, pageVars>>

\* const user = await requireX(), for a request whose session resolves to
\* `resolution`: the guard resolves the session, or the call throws because
\* the name is not bound and no guard runs
Guard(r, resolution) ==
    /\ Running(r)
    /\ Step(r) = "guard"
    /\ LET res == GuardCall(reqs[r].h, resolution)
           ran == IF Bound(reqs[r].h) THEN GuardOf(reqs[r].h) ELSE "none"
       IN  reqs' = [reqs EXCEPT ![r] =
               IF res.ok
               THEN [@ EXCEPT !.guard = ran,
                              !.session = resolution, !.admitted = "passed",
                              !.at = @ + 1]
               ELSE [@ EXCEPT !.guard = ran,
                              !.session = resolution, !.admitted = "failed",
                              !.out = Fail(reqs[r].h, res.error)]]
    /\ UNCHANGED <<agenda, users, facadeVars, uiVars, routeVars, formVars, pageVars>>

\* "Logica da API": the documented handlers end here without a return
Logic(r) ==
    /\ Running(r)
    /\ Step(r) = "logic"
    /\ reqs' = [reqs EXCEPT ![r].out = Returned(Undefined)]
    /\ UNCHANGED <<agenda, users, facadeVars, uiVars, routeVars, formVars, pageVars>>

\* const body = await request.json()
ParseBody(r, b) ==
    /\ Running(r)
    /\ Step(r) = "body"
    /\ reqs' = [reqs EXCEPT ![r] =
           IF b = InvalidJson
           THEN [@ EXCEPT !.out = Fail(reqs[r].h, "SyntaxError")]
           ELSE [@ EXCEPT !.body = b, !.at = @ + 1]]
    /\ UNCHANGED <<agenda, users, facadeVars, uiVars, routeVars, formVars, pageVars>>

\* prisma.agenda.update / prisma.agenda.delete / prisma.user.delete on the
\* row named by the request; each throws when the row does not exist
Persist(r, id) ==
    /\ Running(r)
    /\ Step(r) = "persist"
    /\ LET h == reqs[r].h
       IN  CASE h = "AgendaPUT" ->
                  /\ id \in AgendaIds
                  /\ IF agenda[id] # Absent
                     THEN /\ agenda' = [agenda EXCEPT ![id] = reqs[r].body]
                          /\ reqs' = [reqs EXCEPT ![r] =
                                 [@ EXCEPT !.wrote = TRUE, !.body = Undefined,
                                           !.out = Json(200, reqs[r].body)]]
                     ELSE /\ agenda' = agenda
                          /\ reqs' = [reqs EXCEPT ![r] =
                                 [@ EXCEPT !.body = Undefined,
                                           !.out = Fail(h, "RecordNotFound")]]
                  /\ UNCHANGED users
             [] h = "AgendaDELETE" ->
                  /\ id \in AgendaIds
                  /\ IF agenda[id] # Absent
                     THEN /\ agenda' = [agenda EXCEPT ![id] = Absent]
                          /\ reqs' = [reqs EXCEPT ![r] =
                                 [@ EXCEPT !.wrote = TRUE,
                                           !.out = Json(200, "success")]]
                     ELSE /\ agenda' = agenda
                          /\ reqs' = [reqs EXCEPT ![r].out = Fail(h, "RecordNotFound")]
                  /\ UNCHANGED users
             [] h = "deleteUser" ->
                  /\ id \in UserIds
                  /\ IF id \in users
                     THEN /\ users' = users \ {id}
                          /\ reqs' = [reqs EXCEPT ![r] =
                                 [@ EXCEPT !.wrote = TRUE, !.out = Returned(id)]]
                     ELSE /\ users' = users
                          /\ reqs' = [reqs EXCEPT ![r].out = Fail(h, "RecordNotFound")]
                  /\ UNCHANGED agenda
    /\ UNCHANGED <<facadeVars, uiVars, routeVars, formVars, pageVars>>

NextApi ==
    \/ \E r \in ReqIds, h \in Handlers : Receive(r, h)
    \/ \E r \in ReqIds, s \in ServerResolutions : Guard(r, s)
    \/ \E r \in ReqIds : Logic(r)
    \/ \E r \in ReqIds, b \in Bodies : ParseBody(r, b)
    \/ \E r \in ReqIds, id \in AgendaIds \cup UserIds : Persist(r, id)

InitApiVars ==
    /\ reqs = [r \in ReqIds |-> IdleReq]
    /\ agenda = [i \in AgendaIds |-> "a"]
    /\ users = UserIds

----------------------------------------------------------------------------
(* Projects: src/app/admin/projects/page.tsx and its ProjectForm           *)
(* (_components/project-form.tsx), over the project store                  *)

\* a null string of the store (error: string | null)
NullString == "<null>"

\* an image URL is the sequence of its characters
EmptyUrl == <<>>
BlobPrefix == <<"b", "l", "o", "b", ":">>
\* URL.createObjectURL(file)
PreviewUrl == BlobPrefix \o <<"1">>
StoredUrl == <<"h", "t", "t", "p", ":", "b">>
\* result.url of /api/upload-local
UploadedUrl == <<"/", "u", "p", "/", "1">>

NoProject == [tag |-> "null"]
NoFile == [tag |-> "null"]
File1 == [tag |-> "file", name |-> "a.png"]

\* formSchema: title min(3) max(100), imageUrl min(1), description max(500)
TitleMin == 3
TitleMax == 100
ImageUrlMin == 1
DescriptionMax == 500

\* a text of n characters
RECURSIVE Chars(_)
Chars(n) ==
    IF n = 0 THEN ""
    ELSE IF n = 1 THEN "x"
    ELSE Chars(n \div 2) \o Chars(n - (n \div 2))

\* a row of the Project table without a link ("link" TEXT is nullable)
ProjectOf(id, title, imageUrl, isActive) ==
    [tag |-> "project", id |-> id, title |-> title, imageUrl |-> imageUrl,
     description |-> Chars(0), link |-> NullString, isActive |-> isActive]

\* the rows of the Project table the store can hold; the second has a link
\* and the longest description the schema accepts
StoredProjects ==
    <<ProjectOf("p1", "Site", EmptyUrl, TRUE),
      [ProjectOf("p2", "Site", StoredUrl, FALSE)
           EXCEPT !.description = Chars(DescriptionMax), !.link = "x"]>>

Rows == {StoredProjects[i] : i \in DOMAIN StoredProjects}

\* what the user can type as a title
Titles == {"ab", "Site"}

\* what the user can type as a link
Links == {"x"}

\* what the user can type as an image URL: any text, one that starts with
\* "blob:" included
ImageUrls == {EmptyUrl, StoredUrl, PreviewUrl}

\* what the user can type as a description: the longest the schema accepts
\* and one character more
Descriptions == {Chars(DescriptionMax), Chars(DescriptionMax + 1)}

\* formSchema; link is an optional string, on which nothing depends
formSchema(values) ==
    /\ Len(values.title) >= TitleMin
    /\ Len(values.title) <= TitleMax
    /\ Len(values.imageUrl) >= ImageUrlMin
    /\ Len(values.description) <= DescriptionMax

\* defaultValues of useForm, and the values the effect resets to for a new
\* project
DefaultValues ==
    [title |-> "", imageUrl |-> EmptyUrl, description |-> Chars(0), link |-> "",
     isActive |-> TRUE]

\* isEditing: !!selectedProject?.id
isEditing(selected) == selected # NoProject /\ Truthy(selected.id)

\* text || "": the text, or "" for null, undefined and ""
OrEmpty(text) == IF text = NullString \/ ~Truthy(text) THEN "" ELSE text

\* form.reset(...) of the selectedProject effect; imageUrl || "" of a
\* sequence of characters is the sequence
ResetValues(selected) ==
    IF isEditing(selected)
    THEN [title |-> OrEmpty(selected.title), imageUrl |-> selected.imageUrl,
          description |-> OrEmpty(selected.description),
          link |-> OrEmpty(selected.link),
          isActive |-> selected.isActive]
    ELSE DefaultValues

Unmounted == [tag |-> "unmounted"]

\* a ProjectForm after its first render and effects: the useState initial
\* values, and the form values the selectedProject effect has reset
MountForm(selected) ==
    [tag |-> "form", imageSource |-> "url", isUploading |-> FALSE,
     imageFile |-> NoFile, isSubmitting |-> FALSE,
     values |-> ResetValues(selected)]

ProjectsView_listFirst(l, ps, e) ==
    IF l /\ Len(ps) = 0 THEN "spinner"
    ELSE IF Len(ps) # 0 THEN "list"
    ELSE IF e # NullString /\ e # "" THEN "error"
    ELSE "empty"

\* ProjectsPage render: the four views, in the order of the conditional
ProjectsView(l, ps, e) ==
    IF l /\ Len(ps) = 0 THEN "spinner"
    ELSE IF e # NullString /\ e # "" THEN "error"
    ELSE IF Len(ps) = 0 THEN "empty"
    ELSE "list"

\* the projects whose Editar and Excluir buttons are on the page
Listed ==
    IF ProjectsView(loading, projects, error) = "list"
    THEN {projects[i] : i \in DOMAIN projects}
    ELSE {}

\* a run of onSubmit whose form is gone: its state setters no longer reach a
\* mounted component
Detach(run) == [run EXCEPT !.attached = FALSE]

\* handleOpenFormDialog(project?): the "Projeto" button or a card's Editar;
\* the dialog mounts a ProjectForm
handleOpenFormDialog(project) ==
    /\ ~isFormDialogOpen
    /\ ~isDeleteDialogOpen
    /\ project = NoProject \/ project \in Listed
    /\ selectedProject' = project
    /\ isFormDialogOpen' = TRUE
    /\ form' = MountForm(project)
    /\ UNCHANGED <<subs, toast, submits, pageVars, facadeVars, uiVars, routeVars, apiVars>>

handleCloseFormDialog_keepsSelected ==
    /\ isFormDialogOpen
    /\ isFormDialogOpen' = FALSE
    /\ form' = Unmounted
    /\ subs' = [i \in DOMAIN subs |-> Detach(subs[i])]
    /\ UNCHANGED <<selectedProject, toast, submits, pageVars, facadeVars, uiVars, routeVars, apiVars>>

\* handleCloseFormDialog, as the dialog's onOpenChange: the dialog unmounts
\* its content
handleCloseFormDialog ==
    /\ isFormDialogOpen
    /\ isFormDialogOpen' = FALSE
    /\ selectedProject' = NoProject
    /\ form' = Unmounted
    /\ subs' = [i \in DOMAIN subs |-> Detach(subs[i])]
    /\ UNCHANGED <<toast, submits, pageVars, facadeVars, uiVars, routeVars, apiVars>>

\* the title input
TypeTitle(t) ==
    /\ form # Unmounted
    /\ form' = [form EXCEPT !.values.title = t]
    /\ UNCHANGED <<selectedProject, isFormDialogOpen, subs, toast, submits, pageVars, facadeVars,
                   uiVars, routeVars, apiVars>>

\* the description textarea
TypeDescription(d) ==
    /\ form # Unmounted
    /\ form' = [form EXCEPT !.values.description = d]
    /\ UNCHANGED <<selectedProject, isFormDialogOpen, subs, toast, submits, pageVars,
                   facadeVars, uiVars, routeVars, apiVars>>

\* the link input
TypeLink(l) ==
    /\ form # Unmounted
    /\ form' = [form EXCEPT !.values.link = l]
    /\ UNCHANGED <<selectedProject, isFormDialogOpen, subs, toast, submits, pageVars,
                   facadeVars, uiVars, routeVars, apiVars>>

\* the URL input, rendered when imageSource is "url"
TypeImageUrl(u) ==
    /\ form # Unmounted
    /\ form.imageSource = "url"
    /\ form' = [form EXCEPT !.values.imageUrl = u]
    /\ UNCHANGED <<selectedProject, isFormDialogOpen, subs, toast, submits, pageVars, facadeVars,
                   uiVars, routeVars, apiVars>>

\* the file input's onChange with a file chosen; the input is rendered when
\* imageSource is "file" and is disabled while submitting
SelectFile(file) ==
    /\ form # Unmounted
    /\ form.imageSource = "file"
    /\ ~form.isSubmitting
    /\ form' = [form EXCEPT !.imageFile = file, !.values.imageUrl = PreviewUrl]
    /\ UNCHANGED <<selectedProject, isFormDialogOpen, subs, toast, submits, pageVars, facadeVars,
                   uiVars, routeVars, apiVars>>

handleImageSourceChange(source) ==
    /\ form # Unmounted
    /\ form' = [form EXCEPT !.imageFile = NoFile, !.values.imageUrl = EmptyUrl,
                            !.imageSource = source]
    /\ UNCHANGED <<selectedProject, isFormDialogOpen, subs, toast, submits, pageVars, facadeVars,
                   uiVars, routeVars, apiVars>>

ToggleActive_always ==
    /\ form # Unmounted
    /\ form' = [form EXCEPT !.values.isActive = ~form.values.isActive]
    /\ UNCHANGED <<selectedProject, isFormDialogOpen, subs, toast, submits, pageVars, facadeVars,
                   uiVars, routeVars, apiVars>>

\* the isActive switch, rendered when isEditing
ToggleActive ==
    /\ form # Unmounted
    /\ isEditing(selectedProject)
    /\ form' = [form EXCEPT !.values.isActive = ~form.values.isActive]
    /\ UNCHANGED <<selectedProject, isFormDialogOpen, subs, toast, submits, pageVars, facadeVars,
                   uiVars, routeVars, apiVars>>

\* handleCancel: the Cancelar button, disabled while submitting; onSuccess is
\* the page's handleCloseFormDialog
handleCancel ==
    /\ form # Unmounted
    /\ ~form.isSubmitting
    /\ selectedProject' = NoProject
    /\ isFormDialogOpen' = FALSE
    /\ form' = Unmounted
    /\ subs' = [i \in DOMAIN subs |-> Detach(subs[i])]
    /\ UNCHANGED <<toast, submits, pageVars, facadeVars, uiVars, routeVars, apiVars>>

\* the store mutation a run of onSubmit has called, if any
NoStoreCall == [fn |-> "none"]

StoreCall_alwaysCreate(selected, values, url) ==
    [fn |-> "createProject", id |-> Undefined, data |-> [values EXCEPT !.imageUrl = url]]

\* onSubmit: updateProject(selectedProject.id, dataToSubmit) when isEditing,
\* createProject(dataToSubmit) otherwise
StoreCall(selected, values, url) ==
    IF isEditing(selected)
    THEN [fn |-> "updateProject", id |-> selected.id,
          data |-> [values EXCEPT !.imageUrl = url]]
    ELSE [fn |-> "createProject", id |-> Undefined,
          data |-> [values EXCEPT !.imageUrl = url]]

NoToast == [kind |-> "none"]
ToastSuccess(m) == [kind |-> "success", message |-> m]
ToastError(m) == [kind |-> "error", message |-> m]

\* what the upload to /api/upload-local can come to: a JSON body with
\* success, url and message, or a rejected fetch
UploadOk == [tag |-> "json", success |-> TRUE, url |-> UploadedUrl, message |-> Undefined]
UploadRefused(m) == [tag |-> "json", success |-> FALSE, url |-> EmptyUrl, message |-> m]
UploadThrows == [tag |-> "throws", message |-> "Failed to fetch"]
UploadResults == {UploadOk, UploadRefused(Undefined), UploadRefused("Arquivo grande"), UploadThrows}

\* what createProject/updateProject can come to
StoreOk == [tag |-> "resolved"]
StoreRejects(isError, m) == [tag |-> "rejected", isError |-> isError, message |-> m]
StoreResults == {StoreOk, StoreRejects(TRUE, "Falha ao salvar"), StoreRejects(FALSE, Undefined)}

\* the message of the error the upload block throws
UploadError(result) ==
    IF result.tag = "throws" THEN result.message
    ELSE IF Truthy(result.message) THEN result.message
    ELSE "Erro no upload da imagem."

AfterUpload_ignoresFailure(run, result) ==
    [run EXCEPT !.phase = "saving",
                !.call = StoreCall(run.selected, run.values, run.values.imageUrl)]

\* onSubmit after the awaited upload: submissionImageUrl = result.url and
\* the store is called, or the thrown error is caught and reported
AfterUpload(run, result) ==
    IF result.tag = "json" /\ result.success
    THEN [run EXCEPT !.phase = "saving",
                     !.call = StoreCall(run.selected, run.values, result.url)]
    ELSE [run EXCEPT !.phase = "failed", !.toast = ToastError(UploadError(result))]

\* onSubmit after the awaited store mutation
AfterStore(run, result) ==
    IF result = StoreOk
    THEN [run EXCEPT !.phase = "saved", !.onSuccess = TRUE,
                     !.toast = ToastSuccess(IF run.call.fn = "updateProject"
                                            THEN "Projeto atualizado com sucesso!"
                                            ELSE "Projeto criado com sucesso!")]
    ELSE [run EXCEPT !.phase = "failed",
                     !.toast = ToastError(IF result.isError THEN result.message
                                          ELSE "Ocorreu um erro ao salvar o projeto.")]

\* bound: runs of onSubmit started
MaxSubmits == 2

\* the sequence without its i-th element
Without(s, i) == SubSeq(s, 1, i - 1) \o SubSeq(s, i + 1, Len(s))

\* form.handleSubmit(onSubmit) with values the schema accepts, up to the first
\* await: the button is disabled while this form is submitting or uploading
Submit ==
    /\ form # Unmounted
    /\ ~form.isSubmitting
    /\ ~form.isUploading
    /\ formSchema(form.values)
    /\ submits < MaxSubmits
    /\ submits' = submits + 1
    /\ LET upload == form.imageFile # NoFile /\ form.imageSource = "file"
       IN  /\ subs' = Append(subs,
                  [phase |-> IF upload THEN "uploading" ELSE "saving",
                   attached |-> TRUE,
                   values |-> form.values,
                   upload |-> upload,
                   selected |-> selectedProject,
                   call |-> IF upload THEN NoStoreCall
                            ELSE StoreCall(selectedProject, form.values,
                                           form.values.imageUrl),
                   toast |-> NoToast,
                   onSuccess |-> FALSE])
           /\ form' = [form EXCEPT !.isSubmitting = TRUE,
                                   !.isUploading = upload]
    /\ UNCHANGED <<selectedProject, isFormDialogOpen, toast, pageVars, facadeVars,
                   uiVars, routeVars, apiVars>>

\* the upload of a pending run settles: the inner finally, then the store
\* call, or the catch with its toast and the outer finally; the state setters
\* of a run whose form is gone reach no component
UploadDone(i, result) ==
    /\ i \in DOMAIN subs
    /\ subs[i].phase = "uploading"
    /\ LET run == AfterUpload(subs[i], result)
       IN  IF run.phase = "saving"
           THEN /\ subs' = [subs EXCEPT ![i] = run]
                /\ toast' = toast
                /\ form' = IF run.attached THEN [form EXCEPT !.isUploading = FALSE]
                           ELSE form
           ELSE /\ subs' = Without(subs, i)
                /\ toast' = run.toast
                /\ form' = IF run.attached
                             THEN [form EXCEPT !.isUploading = FALSE,
                                               !.imageFile = NoFile,
                                               !.isSubmitting = FALSE]
                           ELSE form
    /\ UNCHANGED <<selectedProject, isFormDialogOpen, submits, pageVars, facadeVars,
                   uiVars, routeVars, apiVars>>

\* the store mutation of a pending run settles: the toast, then
\* setSelectedProject(null) and onSuccess, the page's handleCloseFormDialog,
\* or the catch; then the outer finally
StoreDone(i, result) ==
    /\ i \in DOMAIN subs
    /\ subs[i].phase = "saving"
    /\ LET run == AfterStore(subs[i], result)
           rest == Without(subs, i)
       IN  /\ toast' = run.toast
           /\ IF run.onSuccess
              THEN /\ subs' = [k \in DOMAIN rest |-> Detach(rest[k])]
                   /\ selectedProject' = NoProject
                   /\ isFormDialogOpen' = FALSE
                   /\ form' = Unmounted
              ELSE /\ subs' = rest
                   /\ form' = IF run.attached
                                THEN [form EXCEPT !.imageFile = NoFile,
                                                  !.isSubmitting = FALSE]
                              ELSE form
                   /\ UNCHANGED <<selectedProject, isFormDialogOpen>>
    /\ UNCHANGED <<submits, pageVars, facadeVars, uiVars, routeVars, apiVars>>

NextForm ==
    \/ \E p \in {NoProject} \cup Rows : handleOpenFormDialog(p)
    \/ handleCloseFormDialog
    \/ \E x \in Titles : TypeTitle(x)
    \/ \E d \in Descriptions : TypeDescription(d)
    \/ \E l \in Links : TypeLink(l)
    \/ \E u \in ImageUrls : TypeImageUrl(u)
    \/ SelectFile(File1)
    \/ \E s \in {"url", "file"} : handleImageSourceChange(s)
    \/ ToggleActive
    \/ handleCancel
    \/ Submit
    \/ \E i \in 1 .. MaxSubmits, r \in UploadResults : UploadDone(i, r)
    \/ \E i \in 1 .. MaxSubmits, r \in StoreResults : StoreDone(i, r)

\* what the store's error and projects can hold
ErrorValues == {NullString, "", "Erro ao carregar projetos"}
ProjectLists == {<<>>, <<StoredProjects[1]>>, StoredProjects}

\* the store publishes a change of loading, error or projects (fetchProjects
\* of the mount effect and the mutations run inside the store)
StoreSettles(l, e, ps) ==
    /\ <<l, e, ps>> # <<loading, error, projects>>
    /\ loading' = l
    /\ error' = e
    /\ projects' = ps
    /\ UNCHANGED <<isDeleteDialogOpen, projectToDelete, deletions, sinceOpen,
                   formVars, facadeVars, uiVars, routeVars, apiVars>>

\* handleOpenDeleteDialog(project): a card's Excluir button
handleOpenDeleteDialog(project) ==
    /\ ~isDeleteDialogOpen
    /\ ~isFormDialogOpen
    /\ project \in Listed
    /\ projectToDelete' = project
    /\ isDeleteDialogOpen' = TRUE
    /\ sinceOpen' = 0
    /\ UNCHANGED <<projects, loading, error, deletions,
                   formVars, facadeVars, uiVars, routeVars, apiVars>>

handleCloseDeleteDialog_keepsProject ==
    /\ isDeleteDialogOpen
    /\ isDeleteDialogOpen' = FALSE
    /\ UNCHANGED <<projectToDelete, projects, loading, error, deletions, sinceOpen,
                   formVars, facadeVars, uiVars, routeVars, apiVars>>

\* handleCloseDeleteDialog, as the dialog's onOpenChange
handleCloseDeleteDialog ==
    /\ isDeleteDialogOpen
    /\ projectToDelete' = NoProject
    /\ isDeleteDialogOpen' = FALSE
    /\ UNCHANGED <<projects, loading, error, deletions, sinceOpen,
                   formVars, facadeVars, uiVars, routeVars, apiVars>>

\* the Cancelar button: a DialogClose, which closes through onOpenChange
Cancelar ==
    /\ isDeleteDialogOpen
    /\ projectToDelete' = NoProject
    /\ isDeleteDialogOpen' = FALSE
    /\ UNCHANGED <<projects, loading, error, deletions, sinceOpen,
                   formVars, facadeVars, uiVars, routeVars, apiVars>>

\* bound: calls of deleteProject
MaxDeletes == 2

handleDeleteConfirm_keepsOpen ==
    /\ isDeleteDialogOpen
    /\ Len(deletions) < MaxDeletes
    /\ projectToDelete # NoProject
    /\ deletions' = Append(deletions, [id |-> projectToDelete.id, toast |-> "loading"])
    /\ sinceOpen' = sinceOpen + 1
    /\ UNCHANGED <<isDeleteDialogOpen, projectToDelete, projects, loading, error,
                   formVars, facadeVars, uiVars, routeVars, apiVars>>

\* handleDeleteConfirm: the dialog's Excluir button; deleteProject is called,
\* its promise handed to toast.promise, and the dialog closed without an await
handleDeleteConfirm ==
    /\ isDeleteDialogOpen
    /\ Len(deletions) < MaxDeletes
    /\ IF projectToDelete # NoProject
       THEN /\ deletions' =
                   Append(deletions, [id |-> projectToDelete.id, toast |-> "loading"])
            /\ sinceOpen' = sinceOpen + 1
            /\ projectToDelete' = NoProject
            /\ isDeleteDialogOpen' = FALSE
       ELSE UNCHANGED <<deletions, sinceOpen, projectToDelete, isDeleteDialogOpen>>
    /\ UNCHANGED <<projects, loading, error,
                   formVars, facadeVars, uiVars, routeVars, apiVars>>

\* the promise of deleteProject settles: toast.promise shows success or error
DeleteDone(i, ok) ==
    /\ i \in DOMAIN deletions
    /\ deletions[i].toast = "loading"
    /\ deletions' = [deletions EXCEPT ![i].toast = IF ok THEN "success" ELSE "error"]
    /\ UNCHANGED <<projects, loading, error, isDeleteDialogOpen, projectToDelete,
                   sinceOpen, formVars, facadeVars, uiVars, routeVars, apiVars>>

NextPage ==
    \/ \E l \in BOOLEAN, e \in ErrorValues, ps \in ProjectLists : StoreSettles(l, e, ps)
    \/ \E p \in Rows : handleOpenDeleteDialog(p)
    \/ handleCloseDeleteDialog
    \/ Cancelar
    \/ handleDeleteConfirm
    \/ \E i \in 1..MaxDeletes, ok \in BOOLEAN : DeleteDone(i, ok)

InitFormVars ==
    /\ selectedProject = NoProject
    /\ isFormDialogOpen = FALSE
    /\ form = Unmounted
    /\ subs = <<>>
    /\ toast = NoToast
    /\ submits = 0

\* the store as a page finds it after an earlier fetch: the projects loaded,
\* no fetch running, no error
InitPageVars ==
    /\ projects = StoredProjects
    /\ loading = FALSE
    /\ error = NullString
    /\ isDeleteDialogOpen = FALSE
    /\ projectToDelete = NoProject
    /\ deletions = <<>>
    /\ sinceOpen = 0

----------------------------------------------------------------------------
(* Specifications *)

Init ==
    /\ InitApiVars /\ InitRouteVars /\ InitFacadeVars /\ InitUiVars
    /\ InitFormVars /\ InitPageVars

\* the API handlers
Next == NextApi
Spec == Init /\ [][Next]_vars

\* the route guard
SpecRoute == Init /\ [][NextRoute]_vars

\* the route guard on a server that goes on with every request it accepted
SpecRouteFair ==
    /\ SpecRoute
    /\ WF_vars(RunMiddleware)
    /\ WF_vars(PassThrough)
    /\ WF_vars(RenderPage)
    /\ WF_vars(Respond)

\* the project form and its dialog
SpecForm == Init /\ [][NextForm]_vars

\* the projects page: the store, the list and the delete dialog
SpecPage == Init /\ [][NextPage]_vars

\* the client facade
SpecFacade == Init /\ [][NextFacade]_vars

\* the UI guards over the client facade
SpecUi == Init /\ [][NextUi]_vars

----------------------------------------------------------------------------
(* Properties *)

Calls == {c \in {lastCall, prevCall} : c.tag = "call"}

\* the role stored in the session of a recorded call
RoleIn(session) == IF HasUser(session) THEN session.user.role ELSE Undefined

\* C1: for a session whose role is ADMIN, hasPermission(p) is true for every
\* string p, also for strings outside the six-string vocabulary
C1_AdminHasEveryPermission ==
    \A c \in Calls : RoleIn(c.session) = "ADMIN" => c.result = TRUE

C1_Witness ==
    /\ lastCall.tag = "call"
    /\ RoleIn(lastCall.session) = "ADMIN"
    /\ lastCall.permission = "users:delete"
    /\ lastCall.result = TRUE

\* C2: every permission string that hasPermission grants to role USER it
\* also grants to role MANAGER
C2_ManagerSupersetOfUser ==
    \A c1, c2 \in Calls :
        /\ RoleIn(c1.session) = "USER"
        /\ RoleIn(c2.session) = "MANAGER"
        /\ c1.permission = c2.permission
        /\ c1.result = TRUE
        => c2.result = TRUE

C2_Witness ==
    /\ prevCall.tag = "call" /\ lastCall.tag = "call"
    /\ RoleIn(prevCall.session) = "USER"
    /\ RoleIn(lastCall.session) = "MANAGER"
    /\ prevCall.permission = "profile:read_own"
    /\ lastCall.permission = "profile:read_own"
    /\ prevCall.result = TRUE /\ lastCall.result = TRUE

\* C3: for role USER hasPermission(p) is true exactly for agenda:read,
\* profile:read_own, profile:update_own; for role MANAGER exactly for those
\* three and agenda:create, agenda:update, agenda:delete
C3_AllowListsExact ==
    \A c \in Calls :
        /\ RoleIn(c.session) = "USER" =>
             (c.result <=> c.permission \in
                 {"agenda:read", "profile:read_own", "profile:update_own"})
        /\ RoleIn(c.session) = "MANAGER" =>
             (c.result <=> c.permission \in
                 {"agenda:read", "profile:read_own", "profile:update_own",
                  "agenda:create", "agenda:update", "agenda:delete"})

C3_Witness ==
    /\ prevCall.tag = "call" /\ lastCall.tag = "call"
    /\ RoleIn(prevCall.session) = "USER"
    /\ prevCall.permission = "agenda:create"
    /\ prevCall.result = FALSE
    /\ RoleIn(lastCall.session) = "MANAGER"
    /\ lastCall.permission = "agenda:create"
    /\ lastCall.result = TRUE

Guarded == {r \in ReqIds : reqs[r].admitted # "pending"}

IsUnauthorized(out) ==
    \/ out = Json(401, "Unauthorized")
    \/ out = Thrown("Unauthorized")

\* C4: requireAuth() admits any resolved session, requireManagerOrAdmin()
\* only roles MANAGER and ADMIN, requireAdmin() only role ADMIN, and every
\* other caller fails with Unauthorized; a MANAGER passes the guard of the
\* create handler and fails the guard of deleteUser; a null session fails
\* the guard of every handler
C4_GuardsAdmitExactly ==
    \A r \in Guarded :
        LET q == reqs[r]
            role == RoleIn(q.session)
        IN  /\ q.guard = "requireAuth" =>
                 (q.admitted = "passed" <=> role \in {"USER", "MANAGER", "ADMIN"})
            /\ q.guard = "requireManagerOrAdmin" =>
                 (q.admitted = "passed" <=> role \in {"MANAGER", "ADMIN"})
            /\ q.guard = "requireAdmin" =>
                 (q.admitted = "passed" <=> role = "ADMIN")
            /\ q.admitted = "failed" => IsUnauthorized(q.out)
            /\ (q.h = "AgendaPOST" /\ role = "MANAGER") => q.admitted = "passed"
            /\ (q.h = "deleteUser" /\ role = "MANAGER") =>
                 (q.admitted = "failed" /\ ~q.wrote)
            /\ q.session = NullSession => q.admitted = "failed"

C4_Witness ==
    \E r1, r2 \in ReqIds :
        /\ reqs[r1].h = "deleteUser"
        /\ RoleIn(reqs[r1].session) = "MANAGER"
        /\ reqs[r1].admitted = "failed"
        /\ reqs[r1].out = Thrown("Unauthorized")
        /\ reqs[r2].h = "AgendaPOST"
        /\ RoleIn(reqs[r2].session) = "MANAGER"
        /\ reqs[r2].admitted = "passed"

C5_WriterWasAdmitted ==
    \A r \in ReqIds :
        /\ reqs[r].wrote => reqs[r].admitted = "passed"
        /\ reqs[r].admitted = "failed" =>
             (~reqs[r].wrote /\ reqs[r].out # NoOutcome)

C5_WriteStep ==
    <<agenda, users>>' # <<agenda, users>> =>
        \E r \in ReqIds :
            /\ reqs[r].admitted = "passed"
            /\ ~reqs[r].wrote
            /\ reqs'[r].wrote

C5_FailedGuardStep ==
    \A r \in ReqIds :
        (reqs[r].admitted = "pending" /\ reqs'[r].admitted = "failed") =>
            UNCHANGED <<agenda, users>>

\* C5: a persistence mutation happens only in a handler whose guard has
\* returned a user, and a handler whose guard failed makes no persistence
\* call and leaves the stored data as it was
C5_GuardBeforePersistence ==
    /\ []C5_WriterWasAdmitted
    /\ [][C5_WriteStep /\ C5_FailedGuardStep]_vars

C5_Witness ==
    \E r1, r2 \in ReqIds :
        /\ reqs[r1].h = "AgendaPUT"
        /\ reqs[r1].wrote
        /\ reqs[r1].admitted = "passed"
        /\ reqs[r2].h = "deleteUser"
        /\ reqs[r2].guard = "requireAdmin"
        /\ reqs[r2].admitted = "failed"
        /\ agenda[1] = "b"
        /\ users = UserIds

Decisions == {e \in served : e.by = "middleware"}

\* the request asked for a path of the matcher and is at the page of one
AtAdminPage ==
    /\ rq.st \in {"page", "rendered"}
    /\ MatcherMatches(rq.path)

Unauthenticated(session) == session = NullSession \/ session = SessionOf(NoUser)

\* C6: a request under /admin whose session is null or has no user is
\* redirected to /login and does not reach the page of the admin path
C6_UnauthenticatedToLogin ==
    /\ \A e \in Decisions :
           Unauthenticated(e.session) => e.outcome = Redirect(PathLogin)
    /\ (rq.st # "idle" /\ Unauthenticated(rq.session) /\ MatcherMatches(rq.asked))
           => ~AtAdminPage

C6_Witness ==
    /\ rq.st = "rendered"
    /\ rq.asked = PathAdminProjects
    /\ rq.session = NullSession
    /\ rq.path = PathLogin
    /\ \E e \in Decisions : e.session = SessionOf(NoUser)

\* C7: a request under /admin whose session has a role that is neither
\* MANAGER nor ADMIN is redirected to "/" and does not reach the page of the
\* admin path
C7_InsufficientRoleToHome ==
    /\ \A e \in Decisions :
           (HasUser(e.session) /\ e.session.user.role \notin {"MANAGER", "ADMIN"})
               => e.outcome = Redirect(PathHome)
    /\ (/\ rq.st # "idle"
        /\ HasUser(rq.session)
        /\ rq.session.user.role \notin {"MANAGER", "ADMIN"}
        /\ MatcherMatches(rq.asked))
           => ~AtAdminPage

C7_Witness ==
    /\ rq.st = "rendered"
    /\ rq.asked = PathAdminProjects
    /\ rq.session = SessionOf(UserWith("USER"))
    /\ rq.path = PathHome

\* C8: a request under /admin whose session has role MANAGER or ADMIN
\* proceeds unchanged, on every admin path; equal (path, session) get equal
\* outcomes whatever was served before
C8_PrivilegedProceeds ==
    /\ \A e \in Decisions :
           (HasUser(e.session) /\ e.session.user.role \in {"MANAGER", "ADMIN"})
               => e.outcome = NextResponse
    /\ (/\ rq.st \in {"page", "rendered"}
        /\ HasUser(rq.session)
        /\ rq.session.user.role \in {"MANAGER", "ADMIN"}
        /\ MatcherMatches(rq.asked))
           => (rq.path = rq.asked /\ rq.redirects = 0)
    /\ (/\ rq.st \in {"rendered", "error"}
        /\ HasUser(rq.session)
        /\ rq.session.user.role \in {"MANAGER", "ADMIN"}
        /\ MatcherMatches(rq.asked))
           => (rq.st = "rendered" /\ rq.path = rq.asked)
    /\ \A e1, e2 \in Decisions :
           (e1.path = e2.path /\ e1.session = e2.session)
               => e1.outcome = e2.outcome

C8_Witness ==
    /\ rq.st = "rendered"
    /\ rq.asked = PathAdminUsers
    /\ rq.path = PathAdminUsers
    /\ rq.session = SessionOf(UserWith("MANAGER"))
    /\ \E e \in Decisions :
           e.path = PathAdmin /\ e.session = SessionOf(UserWith("USER"))

\* C9: when session resolution raises, the route guard, the Dashboard page
\* and the server guard give the outcome they give for a null session, and
\* never the outcome of an authenticated session
C9_FailClosedAsNullSession ==
    /\ \A e \in served :
           e.session = ResolutionError =>
               /\ e.by = "middleware" => e.outcome = Redirect(PathLogin)
               /\ e.by = "Dashboard" => e.outcome = Redirect(PathHome)
               /\ e.outcome \notin {NextResponse, Rendered}
    /\ \A r \in Guarded :
           reqs[r].session = ResolutionError =>
               (reqs[r].admitted = "failed" /\ IsUnauthorized(reqs[r].out))

\* C10: a route handler answers 401 Unauthorized exactly when its guard ran
\* and failed; a failure of the body parsing or of the persistence call after
\* the guard passed is not answered with 401
C10_Only401WhenGuardFailed ==
    \A r \in ReqIds :
        (IsRoute(reqs[r].h) /\ reqs[r].out.kind = "response") =>
            (reqs[r].out.status = 401 <=>
                 (reqs[r].guard # "none" /\ reqs[r].admitted = "failed"))

Shown(comp) == {i \in DOMAIN mounted : mounted[i].comp = comp}

\* C11: for every role of the enum, hasPermission("agenda:delete") is true
\* iff the card shows the delete control and iff the guard of the agenda
\* DELETE handler admits the role
C11_DeleteAgreement ==
    \A i \in Shown("MyComponent"), j \in Shown("AgendaCard") :
        (RoleIn(cSession) \in UserRole /\ screen[i].view = "home") =>
            /\ screen[i].delete <=> screen[j].delete
            /\ screen[j].delete <=> GuardCall("AgendaDELETE", cSession).ok

RoleAbsent(session) ==
    /\ session.tag = "session"
    /\ RoleIn(session) \in {Undefined, ""}

\* C12: when a session exists and its user has no role (absent, undefined
\* or empty), the facade's role is USER, isAdmin and canManageContent are
\* false, and hasPermission grants exactly USER's allow-list
C12_RoleDefaultsToUser ==
    /\ RoleAbsent(cSession) =>
           /\ auth.role = "USER"
           /\ auth.isAuthenticated
           /\ ~auth.isAdmin
           /\ ~auth.canManageContent
    /\ \A c \in Calls :
           RoleAbsent(c.session) =>
               (c.result <=> c.permission \in
                   {"agenda:read", "profile:read_own", "profile:update_own"})

C12_Witness ==
    /\ cSession = SessionOf(UserWith(""))
    /\ auth.role = "USER"
    /\ prevCall.tag = "call" /\ lastCall.tag = "call"
    /\ prevCall.session = SessionOf(UserWith(Undefined))
    /\ prevCall.permission = "profile:update_own"
    /\ prevCall.result = TRUE
    /\ lastCall.session = SessionOf(UserWith(""))
    /\ lastCall.permission = "agenda:update"
    /\ lastCall.result = FALSE

\* C13: isAdmin is true iff the role is ADMIN, canManageContent is true iff
\* the role is MANAGER or ADMIN, for every role value
C13_FlagsMatchRole ==
    /\ auth.isAdmin <=> auth.role = "ADMIN"
    /\ auth.isAdmin <=> RoleIn(cSession) = "ADMIN"
    /\ auth.canManageContent <=> auth.role \in {"MANAGER", "ADMIN"}
    /\ auth.canManageContent <=> RoleIn(cSession) \in {"MANAGER", "ADMIN"}

C13_Witness ==
    /\ cSession = SessionOf(UserWith("MANAGER"))
    /\ ~cPending
    /\ ~auth.isAdmin
    /\ auth.canManageContent

\* C14 as stated: isEditor equals canManageContent, and both are true iff
\* the role is MANAGER or ADMIN
C14_EditorIsAlias ==
    /\ auth.isEditor <=> auth.canManageContent
    /\ auth.isEditor <=> auth.role \in {"MANAGER", "ADMIN"}

\* C14 amended: canManageContent is true iff the role is MANAGER or ADMIN;
\* isEditor is true iff the role is MANAGER, so the two differ exactly for
\* role ADMIN
C14_EditorIsManager ==
    /\ auth.canManageContent <=> auth.role \in {"MANAGER", "ADMIN"}
    /\ auth.isEditor <=> auth.role = "MANAGER"
    /\ (auth.isEditor # auth.canManageContent) <=> auth.role = "ADMIN"

C14_Witness ==
    /\ cSession = SessionOf(UserWith("ADMIN"))
    /\ auth.role = "ADMIN"
    /\ ~auth.isEditor
    /\ auth.canManageContent

\* what a guard shows in place of its children, by its fallback prop
InPlace(props, otherwise) ==
    IF props.fallback THEN [view |-> "fallback"] ELSE [view |-> otherwise]

\* C15: a page guard shows the loading state while the session is not yet
\* loaded; else, when not authenticated, the fallback if provided, else the
\* redirect; else, when requireAdmin is true and the role is not ADMIN, the
\* fallback if provided, else the unauthorized placeholder; else the
\* subtree. Without requireAdmin every authenticated role sees the subtree,
\* with requireAdmin only ADMIN does
C15_PageGuardTable ==
    \A i \in Shown("ProtectedRoute") :
        LET props == mounted[i]
            authed == cSession # NullSession
            admin == RoleIn(cSession) = "ADMIN"
        IN  /\ screen[i] =
                 IF cPending THEN [view |-> "loading"]
                 ELSE IF ~authed THEN InPlace(props, "redirect")
                 ELSE IF props.requireAdmin /\ ~admin
                      THEN InPlace(props, "unauthorized")
                 ELSE [view |-> "children"]
            /\ (~props.requireAdmin /\ ~cPending /\ authed)
                   => screen[i].view = "children"
            /\ props.requireAdmin
                   => (screen[i].view = "children" <=> (~cPending /\ admin))

C15_Witness ==
    /\ Len(mounted) = 2
    /\ ~cPending
    /\ cSession = SessionOf(UserWith("USER"))
    /\ mounted[1] = [comp |-> "ProtectedRoute", requireAdmin |-> FALSE,
                     fallback |-> FALSE]
    /\ screen[1].view = "children"
    /\ mounted[2] = [comp |-> "ProtectedRoute", requireAdmin |-> TRUE,
                     fallback |-> FALSE]
    /\ screen[2].view = "unauthorized"

\* what a gate shows depends on the session and its own props only, whatever
\* else is mounted: equal gates show the same, and a gate shows the same
\* before and after a step that leaves the session alone
C16_OwnPropsOnly ==
    /\ [](\A i, j \in Shown("PermissionGate") :
              mounted[i] = mounted[j] => screen[i] = screen[j])
    /\ [][\A i \in DOMAIN mounted \cap DOMAIN mounted' :
              (/\ mounted[i].comp = "PermissionGate"
               /\ mounted'[i] = mounted[i]
               /\ <<cSession, cPending>>' = <<cSession, cPending>>)
                  => screen'[i] = screen[i]]_vars

\* C16, as stated: a component gate with requireAdmin shows its children iff
\* the role of the current session is ADMIN, and otherwise its fallback if
\* given, else nothing; a gate never redirects, and what it shows depends
\* on the session and its own props only, whatever else is mounted
C16_ChildrenIffAdmin ==
    /\ [](\A i \in Shown("PermissionGate") :
              LET props == mounted[i]
                  admin == RoleIn(cSession) = "ADMIN"
              IN  /\ screen[i].view \notin {"redirect", "unauthorized"}
                  /\ props.requireAdmin =>
                         /\ screen[i].view = "children" <=> admin
                         /\ ~admin => screen[i] = InPlace(props, "nothing"))
    /\ C16_OwnPropsOnly

\* C16, amended: while the session is not yet loaded a component gate shows
\* the loading state; once it is loaded, a gate with requireAdmin shows its
\* children iff the role of the current session is ADMIN, and otherwise its
\* fallback if given, else nothing; a gate never redirects, and what it
\* shows depends on the session and its own props only, whatever else is
\* mounted
C16_GateAdminOnly ==
    /\ [](\A i \in Shown("PermissionGate") :
              LET props == mounted[i]
                  admin == RoleIn(cSession) = "ADMIN"
              IN  /\ screen[i].view \in {"loading", "children", "fallback", "nothing"}
                  /\ cPending <=> screen[i].view = "loading"
                  /\ props.requireAdmin =>
                         /\ screen[i].view = "children" <=> (~cPending /\ admin)
                         /\ (~cPending /\ ~admin)
                                => screen[i] = InPlace(props, "nothing"))
    /\ C16_OwnPropsOnly

C16_Witness ==
    /\ Len(mounted) = 2
    /\ ~cPending
    /\ cSession = SessionOf(UserWith("MANAGER"))
    /\ mounted[1] = [comp |-> "PermissionGate", requireAdmin |-> FALSE,
                     fallback |-> FALSE]
    /\ screen[1].view = "children"
    /\ mounted[2] = [comp |-> "PermissionGate", requireAdmin |-> TRUE,
                     fallback |-> TRUE]
    /\ screen[2].view = "fallback"

\* C18: the role the facade exposes is one of USER, MANAGER, ADMIN for
\* every session, also for one whose user.role is another string
C18_RoleInClosedSet ==
    auth.role \in {"USER", "MANAGER", "ADMIN"}

\* C19: when isAuthenticated is false the facade grants nothing: isAdmin
\* and canManageContent are false and hasPermission(p) is false for every p
C19_UnauthenticatedGetsNothing ==
    /\ ~auth.isAuthenticated => (~auth.isAdmin /\ ~auth.canManageContent)
    /\ \A c \in Calls : ~isAuthenticated(c.session) => c.result = FALSE

\* C20: while the session is pending the facade's isLoading is true and a
\* page guard shows the loading state only: not the subtree, the fallback,
\* the unauthorized placeholder or a redirect
C20_LoadingWhilePending ==
    cPending =>
        /\ auth.isLoading
        /\ \A i \in Shown("ProtectedRoute") : screen[i] = [view |-> "loading"]

C20_Witness ==
    /\ cPending
    /\ cSession = SessionOf(UserWith("ADMIN"))
    /\ Len(mounted) = 2
    /\ mounted[1] = [comp |-> "ProtectedRoute", requireAdmin |-> TRUE,
                     fallback |-> TRUE]
    /\ mounted[2] = [comp |-> "ProtectedRoute", requireAdmin |-> FALSE,
                     fallback |-> FALSE]
    /\ screen[1].view = "loading"
    /\ screen[2].view = "loading"

PageRuns == {e \in served : e.by = "Dashboard"}

\* C21: the Dashboard page decides on the resolved session: a null session is
\* redirected to "/", and the page content is rendered only for a session
\* that is not null
C21_DashboardNeedsSession ==
    /\ \A e \in PageRuns :
           /\ e.session = NullSession => e.outcome = Redirect(PathHome)
           /\ e.outcome = Rendered =>
                  (e.session # NullSession /\ e.session # ResolutionError)
    /\ (rq.st = "rendered" /\ rq.path = PathDashboard) =>
           (rq.session # NullSession /\ rq.session # ResolutionError)

C21_Witness ==
    /\ \E e \in PageRuns :
           e.session = SessionOf(UserWith("USER")) /\ e.outcome = Rendered
    /\ rq.st = "rendered"
    /\ rq.asked = PathDashboard
    /\ rq.session = NullSession
    /\ rq.path = PathHome

\* the request was selected by the matcher and its session resolved
Intercepted ==
    /\ rq.st = "incoming"
    /\ rq.redirects = 0
    /\ MatcherMatches(rq.asked)
    /\ rq.session # ResolutionError

\* C22: the redirect targets of the route guard are outside the matcher, so
\* no request is redirected more than once, the route guard decides at most
\* once per request, and every request it intercepts ends at a rendered page
C22_RedirectsTerminate ==
    /\ [](rq.st # "idle" => rq.redirects <= 1)
    /\ [](\A e \in Decisions :
              e.outcome.kind = "redirect" => ~MatcherMatches(e.outcome.pathname))
    /\ [](\A e \in Decisions : MatcherMatches(e.path))
    /\ (Intercepted ~> (rq.st = "rendered" /\ rq.redirects <= 1))

C22_Witness ==
    /\ rq.st = "rendered"
    /\ rq.asked = PathAdmin
    /\ rq.session = SessionOf(UserWith("USER"))
    /\ rq.path = PathHome
    /\ rq.redirects = 1
    /\ \E e \in Decisions : e.outcome = Redirect(PathLogin)

\* the runs of onSubmit that are pending
Runs == {subs[i] : i \in DOMAIN subs}

Called(run) == run.call # NoStoreCall

\* C23: createProject/updateProject is never called with an imageUrl that
\* starts with "blob:", and a run whose form value is a preview URL uploads
\* the file first
C23_NeverSubmitsPreview ==
    \A run \in Runs :
        /\ Called(run) => ~StartsWith(run.call.data.imageUrl, BlobPrefix)
        /\ StartsWith(run.values.imageUrl, BlobPrefix) => run.upload

UploadFailures == {ToastError(UploadError(r)) : r \in UploadResults \ {UploadOk}}

\* the i-th pending run settles in this step
Settled(i) ==
    /\ Len(subs') = Len(subs) - 1
    /\ i \in DOMAIN subs
    /\ LET rest == Without(subs, i)
       IN  subs' \in {rest, [k \in DOMAIN rest |-> Detach(rest[k])]}

\* C24: with a file image the store is called only after the upload has
\* completed and with the uploaded URL; a run whose upload fails ends without
\* a call of createProject or updateProject; isUploading is true only while
\* the upload of the form's own run is awaited
C24_UploadBeforeStore ==
    /\ [](\A run \in Runs :
              /\ run.phase = "uploading" => ~Called(run)
              /\ (run.upload /\ Called(run)) => run.call.data.imageUrl = UploadedUrl)
    /\ []((form # Unmounted /\ form.isUploading)
              <=> \E run \in Runs : run.attached /\ run.phase = "uploading")
    /\ [][\A i \in DOMAIN subs :
              (Settled(i) /\ subs[i].phase = "uploading")
                  => (~Called(subs[i]) /\ toast' \in UploadFailures)]_vars

C24_Witness ==
    /\ toast \in UploadFailures
    /\ \E run \in Runs :
           /\ run.upload
           /\ run.phase = "saving"
           /\ run.attached
           /\ ~form.isUploading
           /\ run.call.fn = "updateProject"
           /\ run.call.data.imageUrl = UploadedUrl

RightMutation ==
    \A run \in Runs :
        Called(run) =>
            IF isEditing(run.selected)
            THEN run.call.fn = "updateProject" /\ run.call.id = run.selected.id
            ELSE run.call.fn = "createProject"

\* a pending run settles in this step, with a success or an error toast
Settles == \E i \in DOMAIN subs : Settled(i)
Succeeds == Settles /\ toast'.kind = "success"
Fails == Settles /\ toast'.kind = "error"

\* onSuccess is the page's handleCloseFormDialog
OnSuccessAndFailure ==
    /\ Settles => (Succeeds \/ Fails)
    /\ Succeeds =>
           /\ selectedProject' = NoProject
           /\ ~isFormDialogOpen'
    /\ Fails =>
           /\ selectedProject' = selectedProject
           /\ isFormDialogOpen' = isFormDialogOpen
           /\ Truthy(toast'.message)

\* C25, as stated: every run of onSubmit that ends has called exactly one
\* store mutation, updateProject iff selectedProject has an id
C25_ExactlyOneMutation ==
    /\ [][\A i \in DOMAIN subs : Settled(i) => Called(subs[i])]_vars
    /\ []RightMutation
    /\ [][OnSuccessAndFailure]_vars

\* C25, amended: a run calls no store mutation when its upload fails and
\* exactly one otherwise, updateProject with selectedProject's id iff it has
\* one, else createProject; success clears selectedProject and calls
\* onSuccess, failure leaves selectedProject, calls no onSuccess and reports
\* the error message
C25_OneMutationUnlessUploadFails ==
    /\ [][\A i \in DOMAIN subs :
              Settled(i) => (Called(subs[i]) <=> toast' \notin UploadFailures)]_vars
    /\ [](\A run \in Runs : run.phase = "saving" <=> Called(run))
    /\ []RightMutation
    /\ [][OnSuccessAndFailure]_vars

C25_Witness ==
    /\ toast = ToastError("Ocorreu um erro ao salvar o projeto.")
    /\ selectedProject = StoredProjects[2]
    /\ isFormDialogOpen
    /\ ~form.isSubmitting
    /\ \E run \in Runs : run.call.fn = "createProject"

\* C26: whenever createProject is called its isActive is true
C26_CreatedActive ==
    \A run \in Runs : run.call.fn = "createProject" => run.call.data.isActive

C26_Witness ==
    /\ \E run \in Runs : run.call.fn = "createProject" /\ run.call.data.isActive
    /\ \E run \in Runs : run.call.fn = "updateProject" /\ ~run.call.data.isActive

\* C29: whenever the form dialog is closed selectedProject is null, and a
\* failed submit leaves the dialog and selectedProject as they were, the
\* dialog of its own form open
C29_ClosedFormHasNoSelection ==
    /\ [](~isFormDialogOpen => selectedProject = NoProject)
    /\ [](isFormDialogOpen <=> form # Unmounted)
    /\ [][\A i \in DOMAIN subs :
              (Settled(i) /\ toast'.kind = "error") =>
                  /\ isFormDialogOpen' = isFormDialogOpen
                  /\ selectedProject' = selectedProject
                  /\ subs[i].attached => isFormDialogOpen']_vars

C29_Witness ==
    /\ isFormDialogOpen
    /\ selectedProject = StoredProjects[2]
    /\ toast \in UploadFailures
    /\ ~form.isSubmitting
    /\ subs = <<>>

\* C27: the delete dialog is open iff projectToDelete is not null
C27_DeleteDialogHasProject ==
    isDeleteDialogOpen <=> projectToDelete # NoProject

C27_Witness ==
    /\ isDeleteDialogOpen
    /\ projectToDelete = StoredProjects[2]
    /\ Len(deletions) = 1
    /\ deletions[1].id = "p1"

DeleteCalled == Len(deletions') = Len(deletions) + 1
DeleteSettles ==
    \E i \in DOMAIN deletions :
        deletions[i].toast = "loading" /\ deletions'[i].toast # "loading"

\* C28: deleteProject is called at most once per opening of the delete
\* dialog, only with the id of a non-null projectToDelete, and the dialog is
\* closed in the same step, before the deletion settles; a deletion that
\* settles leaves the dialog and the page's state alone and shows in its toast
C28_DeleteOncePerOpening ==
    /\ [](sinceOpen <= 1)
    /\ [][DeleteCalled =>
              /\ isDeleteDialogOpen
              /\ projectToDelete # NoProject
              /\ deletions'[Len(deletions')] =
                     [id |-> projectToDelete.id, toast |-> "loading"]
              /\ ~isDeleteDialogOpen'
              /\ projectToDelete' = NoProject]_vars
    /\ [][DeleteSettles =>
              UNCHANGED <<isDeleteDialogOpen, projectToDelete, projects, loading,
                          error, sinceOpen>>]_vars

C28_Witness ==
    /\ ~isDeleteDialogOpen
    /\ sinceOpen = 1
    /\ Len(deletions) = 2
    /\ deletions[1] = [id |-> "p2", toast |-> "error"]
    /\ deletions[2] = [id |-> "p1", toast |-> "loading"]

ErrorSet == error # NullString /\ error # ""

\* C30: exactly one of four views is shown: the spinner iff loading with an
\* empty list; else the error iff error is set; else the empty state iff the
\* list is empty; else the list, so the list and its controls are shown only
\* when error is not set
C30_ViewPriority ==
    LET v == ProjectsView(loading, projects, error)
        spinner == loading /\ Len(projects) = 0
    IN  /\ v \in {"spinner", "error", "empty", "list"}
        /\ v = "spinner" <=> spinner
        /\ v = "error" <=> (~spinner /\ ErrorSet)
        /\ v = "empty" <=> (~spinner /\ ~ErrorSet /\ Len(projects) = 0)
        /\ v = "list" <=> (~spinner /\ ~ErrorSet /\ Len(projects) # 0)
        /\ Listed # {} => ~ErrorSet

C30_Witness ==
    /\ Len(projects) = 2
    /\ loading
    /\ ErrorSet
    /\ ProjectsView(loading, projects, error) = "error"
    /\ Listed = {}

====
